---- MODULE Spec2Model ----
(***************************************************************************)
(* The classes Human and Vector of the object-oriented-programming         *)
(* notebook and the cells of the energy notebook, as state machines.  The  *)
(* Vector class is modelled over a Python heap.                            *)
(*                                                                         *)
(* A Python list is an object with an identity: heap[l] is the content of  *)
(* the list with identity l.  A Vector object holds a reference to a list  *)
(* (vecs[v].data is a list identity, not a copy).  Numbers are exact       *)
(* rationals <<n, d>> with d > 0 in lowest terms; floating-point rounding  *)
(* is not modelled.  A right-hand operand carries its Python type, since   *)
(* the arithmetic methods branch on isinstance(y, float).  out counts the  *)
(* notices the last call printed, lits the list literals written so far.   *)
(***************************************************************************)
EXTENDS Integers, Sequences, FiniteSets, TLC

\* ---- bounds ------------------------------------------------------------
MaxLen == 2      \* longest list literal the caller writes
MaxVal == 1      \* list literals hold the numbers 0.0 .. MaxVal
MaxLiterals == 2 \* list literals the caller writes
MaxLists == 3    \* list objects alive at once
MaxVecs == 3     \* Vector objects alive at once
MaxNum == 2      \* largest numerator magnitude kept in a list
MaxDen == 2      \* largest denominator kept in a list
MaxX == 1        \* harmonic is called on the numbers -MaxX .. MaxX
MaxYear == 3     \* birth years are 0 .. MaxYear, the clock stops at MaxYear + 1

VARIABLES heap, vecs, call, ret, out, lits

\* The energy notebook: conformer is the array of atom positions, system the
\* force parameters read from the simulation engine, nb the names the cells
\* have bound so far, probe the last call of one of its functions.
VARIABLES conformer, system, nb, probe

\* The Human class of the object-oriented-programming notebook: humans are
\* the Human objects, today is the year date.today() returns now, asked the
\* last call of a method of a Human.
VARIABLES humans, today, asked

vecvars == <<heap, vecs, call, ret, out, lits>>
nbvars == <<conformer, system, nb, probe>>
humanvars == <<humans, today, asked>>
vars == <<heap, vecs, call, ret, out, lits, conformer, system, nb, probe,
          humans, today, asked>>

\* ---- exact rational arithmetic (Python's +, -, *, /, ** on numbers) -----
Abs(n) == IF n < 0 THEN -n ELSE n

RECURSIVE Gcd(_, _)
Gcd(a, b) == IF b = 0 THEN a ELSE Gcd(b, a % b)

Rat(n, d) ==
    LET g == Gcd(Abs(n), Abs(d))
        s == IF d < 0 THEN -1 ELSE 1
    IN  <<(s * n) \div g, (s * d) \div g>>

Zero == <<0, 1>>
One == <<1, 1>>

RAdd(a, b) == Rat(a[1] * b[2] + b[1] * a[2], a[2] * b[2])
RSub(a, b) == Rat(a[1] * b[2] - b[1] * a[2], a[2] * b[2])
RMul(a, b) == Rat(a[1] * b[1], a[2] * b[2])
\* a / b for b # 0; Python raises ZeroDivisionError for b = 0 (see CanDiv)
RDiv(a, b) == Rat(a[1] * b[2], a[2] * b[1])
CanDiv(b) == b[1] # 0

\* a ** e for an integer-valued exponent e
RECURSIVE RPowNat(_, _)
RPowNat(a, e) == IF e = 0 THEN One ELSE RMul(a, RPowNat(a, e - 1))
CanPow(a, e) == e >= 0 \/ a[1] # 0
RPow(a, e) == IF e >= 0 THEN RPowNat(a, e) ELSE RDiv(One, RPowNat(a, -e))

InRange(x) == Abs(x[1]) <= MaxNum /\ x[2] <= MaxDen
AllInRange(s) == \A i \in 1..Len(s) : InRange(s[i])

\* ---- inputs ------------------------------------------------------------
Values == {<<n, 1>> : n \in 0..MaxVal}
Literals == UNION {[1..n -> Values] : n \in 0..MaxLen}

\* right-hand operands: a Python float, a Python int, or a Vector object
FloatArg(x) == [tag |-> "float", num |-> x, vec |-> 0]
IntArg(x) == [tag |-> "int", num |-> x, vec |-> 0]
VecArg(v) == [tag |-> "vec", num |-> Zero, vec |-> v]
NoArg == [tag |-> "none", num |-> Zero, vec |-> 0]

Scalars == {FloatArg(<<0, 1>>), FloatArg(<<2, 1>>), IntArg(<<2, 1>>)}
Exponents == {FloatArg(<<2, 1>>), IntArg(<<0, 1>>), IntArg(<<-1, 1>>)}
Operands == Scalars \cup {VecArg(v) : v \in DOMAIN vecs}

\* ---- results -----------------------------------------------------------
RetNone == [kind |-> "none", vec |-> 0, num |-> Zero, err |-> ""]
RetVec(v) == [kind |-> "vector", vec |-> v, num |-> Zero, err |-> ""]
RetNum(x) == [kind |-> "number", vec |-> 0, num |-> x, err |-> ""]
RetErr(e) == [kind |-> "error", vec |-> 0, num |-> Zero, err |-> e]

\* the outcome of a method: the heap and the objects after it, and what it
\* returned or raised
Outcome(h, vs, r) == [heap |-> h, vecs |-> vs, ret |-> r]
Raise(e) == Outcome(heap, vecs, RetErr(e))
Return(x) == Outcome(heap, vecs, RetNum(x))

\* ---- class Vector ------------------------------------------------------
\* A Vector object knows its class: Vector itself or a class the caller has
\* derived from it (class A(Vector): pass), which inherits every method.
Subclasses == {"A", "B"}
Classes == {"Vector"} \cup Subclasses

\* a new, empty instance of cls
object(cls) == [cls |-> cls, data |-> 0]

\* def __init__(self, data): self.data = data     (the reference is kept)
__init__(self, data) == [self EXCEPT !.data = data]

\* cls(data)
Construct(cls, data) == __init__(object(cls), data)

\* self.__class__ always read as Vector
__class__base(self) == "Vector"

\* self.__class__
__class__(self) == vecs[self].cls

\* cls([...]): the list built by the comprehension is a new list object, and
\* the new instance of cls refers to it
NewVector(cls, elems) ==
    Outcome(Append(heap, elems),
            Append(vecs, Construct(cls, Len(heap) + 1)),
            RetVec(Len(vecs) + 1))

Data(v) == heap[vecs[v].data]

isinstance_float(y) == y.tag = "float"

Min(a, b) == IF a < b THEN a ELSE b

\* zip(a, b) without its last pair
zip_dropping_last(a, b) == [i \in 1..(Min(Len(a), Len(b)) - 1) |-> <<a[i], b[i]>>]

\* zip(a, b): pairs by position, as long as the shorter argument
zip(a, b) == [i \in 1..Min(Len(a), Len(b)) |-> <<a[i], b[i]>>]

\* the builtin sum(data): starts from 0 and adds from the left
RECURSIVE sum(_)
sum(data) ==
    IF Len(data) = 0 THEN Zero
    ELSE RAdd(sum(SubSeq(data, 1, Len(data) - 1)), data[Len(data)])

\* def __add__(self, y): an in-place variant that writes the sums into
\* self.data and wraps that same list
__add__inplace(self, y) ==
    IF isinstance_float(y)
    THEN LET elems == [i \in 1..Len(Data(self)) |-> RAdd(Data(self)[i], y.num)]
         IN  Outcome([heap EXCEPT ![vecs[self].data] = elems],
                     Append(vecs, Construct(__class__(self), vecs[self].data)),
                     RetVec(Len(vecs) + 1))
    ELSE IF y.tag = "vec"
    THEN LET p == zip(Data(self), Data(y.vec))
             elems == [i \in 1..Len(Data(self)) |->
                          IF i <= Len(p) THEN RAdd(p[i][1], p[i][2]) ELSE Data(self)[i]]
         IN  Outcome([heap EXCEPT ![vecs[self].data] = elems],
                     Append(vecs, Construct(__class__(self), vecs[self].data)),
                     RetVec(Len(vecs) + 1))
    ELSE Raise("AttributeError")

\* def __add__(self, y)
__add__(self, y) ==
    IF isinstance_float(y)
    THEN NewVector(__class__(self), [i \in 1..Len(Data(self)) |-> RAdd(Data(self)[i], y.num)])
    ELSE IF y.tag = "vec"
    THEN LET p == zip(Data(self), Data(y.vec))
         IN  NewVector(__class__(self), [i \in 1..Len(p) |-> RAdd(p[i][1], p[i][2])])
    ELSE Raise("AttributeError")    \* y.data on a number that is not a float

\* def __sub__(self, y) with the operands of the pairwise branch exchanged
__sub__swapped(self, y) ==
    IF isinstance_float(y)
    THEN NewVector(__class__(self), [i \in 1..Len(Data(self)) |-> RSub(Data(self)[i], y.num)])
    ELSE IF y.tag = "vec"
    THEN LET p == zip(Data(self), Data(y.vec))
         IN  NewVector(__class__(self), [i \in 1..Len(p) |-> RSub(p[i][2], p[i][1])])
    ELSE Raise("AttributeError")

\* def __sub__(self, y)
__sub__(self, y) ==
    IF isinstance_float(y)
    THEN NewVector(__class__(self), [i \in 1..Len(Data(self)) |-> RSub(Data(self)[i], y.num)])
    ELSE IF y.tag = "vec"
    THEN LET p == zip(Data(self), Data(y.vec))
         IN  NewVector(__class__(self), [i \in 1..Len(p) |-> RSub(p[i][1], p[i][2])])
    ELSE Raise("AttributeError")

\* def __mul__(self, y)
__mul__(self, y) ==
    IF isinstance_float(y)
    THEN NewVector(__class__(self), [i \in 1..Len(Data(self)) |-> RMul(Data(self)[i], y.num)])
    ELSE IF y.tag = "vec"
    THEN LET p == zip(Data(self), Data(y.vec))
         IN  NewVector(__class__(self), [i \in 1..Len(p) |-> RMul(p[i][1], p[i][2])])
    ELSE Raise("AttributeError")

\* def __truediv__(self, y) where a zero divisor leaves the element as it is
\* instead of raising
__truediv__unchecked(self, y) ==
    IF isinstance_float(y)
    THEN NewVector(__class__(self), [i \in 1..Len(Data(self)) |->
                       IF CanDiv(y.num) THEN RDiv(Data(self)[i], y.num) ELSE Data(self)[i]])
    ELSE IF y.tag = "vec"
    THEN LET p == zip(Data(self), Data(y.vec))
         IN  NewVector(__class__(self), [i \in 1..Len(p) |->
                           IF CanDiv(p[i][2]) THEN RDiv(p[i][1], p[i][2]) ELSE p[i][1]])
    ELSE Raise("AttributeError")

\* def __truediv__(self, y): x / y raises ZeroDivisionError on the first
\* element whose divisor is zero
__truediv__(self, y) ==
    IF isinstance_float(y)
    THEN IF Len(Data(self)) > 0 /\ ~CanDiv(y.num)
         THEN Raise("ZeroDivisionError")
         ELSE NewVector(__class__(self), [i \in 1..Len(Data(self)) |-> RDiv(Data(self)[i], y.num)])
    ELSE IF y.tag = "vec"
    THEN LET p == zip(Data(self), Data(y.vec))
         IN  IF \E i \in 1..Len(p) : ~CanDiv(p[i][2])
             THEN Raise("ZeroDivisionError")
             ELSE NewVector(__class__(self), [i \in 1..Len(p) |-> RDiv(p[i][1], p[i][2])])
    ELSE Raise("AttributeError")

\* def __pow__(self, y) with x * y in place of x ** y
__pow__times(self, y) ==
    IF y.tag = "vec"
    THEN IF Len(Data(self)) > 0 THEN Raise("TypeError") ELSE NewVector(__class__(self), <<>>)
    ELSE NewVector(__class__(self), [i \in 1..Len(Data(self)) |-> RMul(Data(self)[i], y.num)])

\* def __pow__(self, y): x ** y for every element; a Vector exponent is an
\* unsupported operand of **, reached only when there is an element
__pow__(self, y) ==
    IF y.tag = "vec"
    THEN IF Len(Data(self)) > 0 THEN Raise("TypeError") ELSE NewVector(__class__(self), <<>>)
    ELSE IF \E i \in 1..Len(Data(self)) : ~CanPow(Data(self)[i], y.num[1])
    THEN Raise("ZeroDivisionError")
    ELSE NewVector(__class__(self), [i \in 1..Len(Data(self)) |-> RPow(Data(self)[i], y.num[1])])

\* def sum(self): return sum(self.data)
Vector_sum(self) == Return(sum(Data(self)))

\* def mean(self): return average(self.data)
\* No cell of the notebook defines or imports the name average, and it is
\* not a builtin: looking it up raises NameError before anything is computed.
mean(self) == Raise("NameError")

\* def __len__(self) counting only the elements that are not zero
__len__nonzero(self) ==
    Return(<<Cardinality({i \in 1..Len(Data(self)) : Data(self)[i] # Zero}), 1>>)

\* def __len__(self): print("greetings!"); return len(self.data)
__len__(self) == Return(<<Len(Data(self)), 1>>)

\* def dot(self, y) computed from the sum of the operands instead of their
\* product
dot_of_sum(self, y) ==
    LET o == __add__(self, y)
    IN  IF o.ret.kind = "error" THEN o
        ELSE Outcome(SubSeq(o.heap, 1, Len(heap)), SubSeq(o.vecs, 1, Len(vecs)),
                     RetNum(sum(o.heap[o.vecs[o.ret.vec].data])))

\* def dot(self, y): return (self * y).sum()
\* The product Vector is a temporary: it is unreferenced once sum() returns.
dot(self, y) ==
    LET o == __mul__(self, y)
    IN  IF o.ret.kind = "error" THEN o
        ELSE Outcome(SubSeq(o.heap, 1, Len(heap)), SubSeq(o.vecs, 1, Len(vecs)),
                     RetNum(sum(o.heap[o.vecs[o.ret.vec].data])))

\* ---- the energy notebook: geometry and harmonic energy ------------------
\* A position is an array of three numbers.  A norm is a number known
\* exactly by its square and its sign, [neg, sq]: it is -sqrt(sq) when neg
\* and sqrt(sq) otherwise.  An angle in (-pi, pi] is known exactly by its
\* cosine, sgn * sqrt(cos2), and by neg, which says that it is below 0.
Sign(n) == IF n > 0 THEN 1 ELSE IF n < 0 THEN -1 ELSE 0
RLeq(a, b) == a[1] * b[2] <= b[1] * a[2]
Half == <<1, 2>>

Root(q) == [neg |-> FALSE, sq |-> q]
Angle(sgn, cos2) == [neg |-> FALSE, sgn |-> sgn, cos2 |-> cos2]

\* the number a norm stands for, when its square is the square of a rational
IsSquareInt(n) == \E r \in 0..n : r * r = n
ISqrt(n) == CHOOSE r \in 0..n : r * r = n
IsSquare(q) == IsSquareInt(q[1]) /\ IsSquareInt(q[2])
Value(root) ==
    LET v == <<ISqrt(root.sq[1]), ISqrt(root.sq[2])>>
    IN  IF root.neg THEN <<-v[1], v[2]>> ELSE v

\* The number np.arctan2 returns for an angle, counted in half turns: the
\* number t stands for t * pi radians.  Equilibrium angles are numbers in
\* the same unit and angle force constants are per squared half turn, which
\* leaves 0.5 * k * (x - x0) ** 2 as it is in radians.
HalfTurns(ang) ==
    LET t == IF ang.cos2 = One THEN (IF ang.sgn = 1 THEN Zero ELSE One)
             ELSE IF ang.cos2 = Half THEN (IF ang.sgn = 1 THEN <<1, 4>> ELSE <<3, 4>>)
             ELSE Half
    IN  IF ang.neg THEN <<-t[1], t[2]>> ELSE t
HasHalfTurns(ang) == ang.cos2 \in {Zero, Half, One}

\* x1 - x0 computed the other way round
get_distance_vector_reversed(x0, x1) == [i \in 1..Len(x0) |-> RSub(x0[i], x1[i])]

\* def get_distance_vector(x0, x1): return x1 - x0
get_distance_vector(x0, x1) == [i \in 1..Len(x0) |-> RSub(x1[i], x0[i])]

\* the sum of the elements of an array along its last axis
RECURSIVE np_sum(_)
np_sum(a) == IF Len(a) = 0 THEN Zero ELSE RAdd(a[1], np_sum(Tail(a)))

\* def get_norm(x01) returning the norm with a minus sign
get_norm_negated(x01) ==
    [Root(np_sum([i \in 1..Len(x01) |-> RMul(x01[i], x01[i])])) EXCEPT !.neg = TRUE]

\* def get_norm(x01): return np.linalg.norm(x01, ord=2, axis=-1)
get_norm(x01) == Root(np_sum([i \in 1..Len(x01) |-> RMul(x01[i], x01[i])]))

\* def get_distance(x0, x1): return get_norm(get_distance_vector(x0, x1))
get_distance(x0, x1) == get_norm(get_distance_vector(x0, x1))

\* np.cross(a, b) of two 3-vectors
np_cross(a, b) ==
    <<RSub(RMul(a[2], b[3]), RMul(a[3], b[2])),
      RSub(RMul(a[3], b[1]), RMul(a[1], b[3])),
      RSub(RMul(a[1], b[2]), RMul(a[2], b[1]))>>

\* np.arctan2(y, x): the angle of the point (x, y), which is 0 at (0, 0)
\* and is below 0 exactly when y < 0
np_arctan2(y, x) ==
    LET below == y.neg /\ y.sq # Zero
        a == IF y.sq = Zero /\ x = Zero THEN Angle(1, One)
             ELSE IF x = Zero THEN Angle(0, Zero)
             ELSE Angle(Sign(x[1]), RDiv(RMul(x, x), RAdd(RMul(x, x), y.sq)))
    IN  [a EXCEPT !.neg = below]

\* def get_angle(x0, x1, x2) with the second vector taken from x0, not x1
get_angle_mixed(x0, x1, x2) ==
    LET x10 == get_distance_vector(x1, x0)
        x12 == get_distance_vector(x0, x2)
    IN  np_arctan2(get_norm(np_cross(x10, x12)),
                   np_sum([i \in 1..Len(x10) |-> RMul(x10[i], x12[i])]))

\* def get_angle(x0, x1, x2) with both vectors starting at x0
get_angle_at_first(x0, x1, x2) ==
    LET x10 == get_distance_vector(x0, x1)
        x12 == get_distance_vector(x0, x2)
    IN  np_arctan2(get_norm(np_cross(x10, x12)),
                   np_sum([i \in 1..Len(x10) |-> RMul(x10[i], x12[i])]))

\* def get_angle(x0, x1, x2)
get_angle(x0, x1, x2) ==
    LET x10 == get_distance_vector(x1, x0)
        x12 == get_distance_vector(x1, x2)
    IN  np_arctan2(get_norm(np_cross(x10, x12)),
                   np_sum([i \in 1..Len(x10) |-> RMul(x10[i], x12[i])]))

\* def harmonic(x, k, r0) with x + r0 in place of x - r0
harmonic_plus(x, k, r0) == RMul(RMul(Half, k), RPow(RAdd(x, r0), 2))

\* def harmonic(x, k, r0) with 0.5 + k in place of 0.5 * k
harmonic_halfplus(x, k, r0) == RAdd(Half, RMul(k, RPow(RSub(x, r0), 2)))

\* def harmonic(x, k, r0) with the exponent 3
harmonic_cubic(x, k, r0) == RMul(RMul(Half, k), RPow(RSub(x, r0), 3))

\* def harmonic(x, k, r0): return 0.5 * k * (x - r0) ** 2
harmonic(x, k, r0) == RMul(RMul(Half, k), RPow(RSub(x, r0), 2))

\* positions of the atoms
P(a, b, c) == <<<<a, 1>>, <<b, 1>>, <<c, 1>>>>
Points == {P(0, 0, 0), P(1, 0, 0), P(0, 1, 0), P(-1, 0, 0), P(1, 1, 0), P(0, 0, 2)}
Conformers == [1..3 -> Points]

\* numbers passed to harmonic
Numbers == {<<n, 1>> : n \in -MaxX..MaxX}

\* molecule._conformers[0]: atom a (counted from 0) is row a + 1
Atoms == 0..2
pos(c, a) == c[a + 1]

\* the bond and angle parameters the engine holds for the water molecule:
\* bonds 0-1 and 1-2, angle 0-1-2
BondTerm(i, j, r0, k) == [i |-> i, j |-> j, r0 |-> r0, k |-> k]
AngleTerm(i, j, k, theta0, k_theta) ==
    [i |-> i, j |-> j, k |-> k, theta0 |-> theta0, k_theta |-> k_theta]
BondLengths == {<<1, 1>>, <<2, 1>>}
BondConstants == {<<1, 1>>, <<4, 1>>}
AngleParameters == {<<Half, <<1, 1>>>>, <<<<3, 4>>, <<2, 1>>>>}
Forces ==
    {[bonds |-> <<BondTerm(0, 1, ra, ka), BondTerm(1, 2, rb, kb)>>,
      angles |-> <<AngleTerm(0, 1, 2, ap[1], ap[2])>>] :
        ra \in BondLengths, ka \in BondConstants,
        rb \in BondLengths, kb \in BondConstants, ap \in AngleParameters}

\* the energy the engine reports for a force group: every term of the force
\* with its own atoms and its own parameters
RECURSIVE HarmonicBondForce(_, _)
HarmonicBondForce(c, terms) ==
    IF Len(terms) = 0 THEN Zero
    ELSE LET t == terms[1]
             r == Value(get_distance(pos(c, t.i), pos(c, t.j)))
         IN  RAdd(RMul(RMul(Half, t.k), RMul(RSub(r, t.r0), RSub(r, t.r0))),
                  HarmonicBondForce(c, Tail(terms)))

RECURSIVE HarmonicAngleForce(_, _)
HarmonicAngleForce(c, terms) ==
    IF Len(terms) = 0 THEN Zero
    ELSE LET t == terms[1]
             a == HalfTurns(get_angle(pos(c, t.i), pos(c, t.j), pos(c, t.k)))
         IN  RAdd(RMul(RMul(Half, t.k_theta), RMul(RSub(a, t.theta0), RSub(a, t.theta0))),
                  HarmonicAngleForce(c, Tail(terms)))

\* the engine works in single precision: what it reports is the energy or a
\* number close to it
Roundings == {<<Zero, Zero>>, <<<<1, 1000000>>, Zero>>, <<Zero, <<1, 1000000>>>>}

\* system and the energies read from the simulation of conformer c
System(c, force, rounding) ==
    [bonds |-> force.bonds, angles |-> force.angles,
     bond_energy |-> RAdd(HarmonicBondForce(c, force.bonds), rounding[1]),
     angle_energy |-> RAdd(HarmonicAngleForce(c, force.angles), rounding[2])]
NoSystem == [bonds |-> <<>>, angles |-> <<>>, bond_energy |-> Zero, angle_energy |-> Zero]

\* the names bound by the cells; pc is the next cell to run
NoPosition == <<>>
Unbound ==
    [pc |-> "unpack",
     x0 |-> NoPosition, x1 |-> NoPosition, x2 |-> NoPosition,
     r01 |-> Root(Zero), r12 |-> Root(Zero), c012 |-> Angle(1, One),
     r0 |-> Zero, k_r |-> Zero, theta0 |-> Zero, k_theta |-> Zero,
     bond_energy_computed |-> Zero, angle_energy_computed |-> Zero,
     err |-> "", args |-> <<>>]

\* force.getBondParameters(0) and force.getAngleParameters(0): the
\* parameters of the first bond and of the first angle; their magnitudes in
\* nanometer, radian and kJ/mol are the numbers of the model
getBondParameters(sys, n) == sys.bonds[n + 1]
getAngleParameters(sys, n) == sys.angles[n + 1]

\* bond_energy_computed = harmonic(r01, k_r, r0) + harmonic(r12, k_r, r0)
bond_energy_computed(n) ==
    RAdd(harmonic(Value(n.r01), n.k_r, n.r0), harmonic(Value(n.r12), n.k_r, n.r0))

\* angle_energy_computed with the bond force constant
angle_energy_computed_k_r(n) == harmonic(HalfTurns(n.c012), n.k_r, n.theta0)

\* angle_energy_computed = harmonic(c012, k_theta, theta0)
angle_energy_computed(n) == harmonic(HalfTurns(n.c012), n.k_theta, n.theta0)

\* np.allclose(a, b, rtol=1e-05, atol=1e-08) of two numbers:
\* absolute(a - b) <= atol + rtol * absolute(b).  With both sides counted in
\* units of atol = 1 / A and rtol = 1 / R this is d <= 1 + r / R, that is
\* R * (d - 1) <= r, that is d <= 1 or R <= r \div (d - 1).
rtol == <<1, 100000>>
atol == <<1, 100000000>>
RAbs(a) == <<Abs(a[1]), a[2]>>
Units(a, unit) == a[1] * (unit[2] \div a[2])

\* np.allclose with the absolute tolerance only
np_allclose_absolute(a, b, rt, at) ==
    Units(RAbs(RSub(a, b)), at) <= 1

np_allclose(a, b, rt, at) ==
    LET d == Units(RAbs(RSub(a, b)), at)
        r == Units(RAbs(b), at)
    IN  d <= 1 \/ rt[2] <= r \div (d - 1)

\* calls of the functions on their own
NoProbe ==
    [op |-> "none", a |-> 0, b |-> 0, c |-> 0, x |-> Zero, k |-> Zero, r0 |-> Zero,
     vec |-> <<>>, root |-> Root(Zero), ang |-> Angle(1, One), num |-> Zero]

\* ---- class Human ------------------------------------------------------
\* def __init__(self, name, birth_year)
Human(name, birth_year) == [name |-> name, birth_year |-> birth_year]

\* def get_age(self): return date.today().year - self.birth_year
\* year is the year date.today() returns when the method runs
get_age(self, year) == year - humans[self].birth_year

\* the result of a method of a Human: the objects after the call and the
\* value returned
Answer(hs, value) == [humans |-> hs, ret |-> value]

\* def is_older_than(self, other) with >= in place of >
is_older_than_or_equal(self, other, y1, y2) ==
    Answer(humans, get_age(self, y1) >= get_age(other, y2))

\* def is_older_than(self, other): return self.get_age() > other.get_age()
\* The two calls of get_age read the clock one after the other: y1 is the
\* year the first reads, y2 the year the second reads.
is_older_than(self, other, y1, y2) ==
    Answer(humans, get_age(self, y1) > get_age(other, y2))

BirthYears == 0..MaxYear
NotAsked == [op |-> "none", self |-> 0, other |-> 0, years |-> <<0, 0>>,
             ret |-> FALSE, age |-> 0]
HumansIdle ==
    /\ humans = <<>>
    /\ today = 0
    /\ asked = NotAsked

\* ---- the program: a caller working with lists and Vectors --------------
Called(op, self, y) == [op |-> op, self |-> self, y |-> y]

Fits(o) ==
    /\ Len(o.heap) <= MaxLists
    /\ Len(o.vecs) <= MaxVecs
    /\ \A l \in DOMAIN o.heap : AllInRange(o.heap[l])

Do(op, self, y, o) ==
    /\ Fits(o)
    /\ heap' = o.heap
    /\ vecs' = o.vecs
    /\ ret' = o.ret
    /\ call' = Called(op, self, y)
    /\ out' = 0
    /\ lits' = lits
    /\ UNCHANGED nbvars
    /\ UNCHANGED humanvars

Init ==
    /\ heap = <<>>
    /\ vecs = <<>>
    /\ call = Called("none", 0, NoArg)
    /\ ret = RetNone
    /\ out = 0
    /\ lits = 0
    /\ conformer = <<>>
    /\ system = NoSystem
    /\ nb = Unbound
    /\ probe = NoProbe
    /\ HumansIdle

\* Vector([...]): the caller writes a list literal and constructs from it
VectorOfLiteral ==
    \E elems \in Literals :
        LET o == NewVector("Vector", elems)
        IN  /\ lits < MaxLiterals
            /\ Fits(o)
            /\ heap' = o.heap
            /\ vecs' = o.vecs
            /\ ret' = o.ret
            /\ call' = Called("__init__", 0, NoArg)
            /\ out' = 0
            /\ lits' = lits + 1
            /\ UNCHANGED nbvars
            /\ UNCHANGED humanvars

\* Vector(d) for a list d that already exists (v.data of another Vector, or
\* the list an earlier Vector was built from)
VectorOfList ==
    \E l \in DOMAIN heap :
        Do("__init__", 0, NoArg,
           Outcome(heap, Append(vecs, Construct("Vector", l)), RetVec(Len(vecs) + 1)))

\* d[i] = x by the caller, on a list it holds a reference to
SetItem ==
    \E l \in DOMAIN heap : \E i \in DOMAIN heap[l] : \E x \in Values :
        Do("setitem", 0, NoArg,
           Outcome([heap EXCEPT ![l][i] = x], vecs, RetNone))

Add == \E self \in DOMAIN vecs : \E y \in Operands : Do("__add__", self, y, __add__(self, y))
Sub == \E self \in DOMAIN vecs : \E y \in Operands : Do("__sub__", self, y, __sub__(self, y))
Mul == \E self \in DOMAIN vecs : \E y \in Operands : Do("__mul__", self, y, __mul__(self, y))
TrueDiv ==
    \E self \in DOMAIN vecs : \E y \in Operands :
        Do("__truediv__", self, y, __truediv__(self, y))
Pow ==
    \E self \in DOMAIN vecs : \E y \in Exponents \cup {VecArg(v) : v \in DOMAIN vecs} :
        Do("__pow__", self, y, __pow__(self, y))
Dot == \E self \in DOMAIN vecs : \E y \in Operands : Do("dot", self, y, dot(self, y))
Sum == \E self \in DOMAIN vecs : Do("sum", self, NoArg, Vector_sum(self))
Mean == \E self \in DOMAIN vecs : Do("mean", self, NoArg, mean(self))
Length ==
    \E self \in DOMAIN vecs :
        LET o == __len__(self)
        IN  /\ Fits(o)
            /\ heap' = o.heap
            /\ vecs' = o.vecs
            /\ ret' = o.ret
            /\ call' = Called("__len__", self, NoArg)
            /\ out' = 1
            /\ lits' = lits
            /\ UNCHANGED nbvars
            /\ UNCHANGED humanvars

Next ==
    \/ VectorOfLiteral
    \/ Add
    \/ Sub
    \/ Mul
    \/ TrueDiv
    \/ Pow
    \/ Dot
    \/ Sum
    \/ Mean
    \/ Length

Spec == Init /\ [][Next]_vars

\* the same caller, who also keeps the lists it built Vectors from, builds
\* further Vectors from them and assigns to their items
NextShared ==
    \/ VectorOfLiteral
    \/ VectorOfList
    \/ SetItem
    \/ Add
    \/ Sum

SpecShared == Init /\ [][NextShared]_vars

\* cls([...]) for Vector or a class derived from it, on a list literal of at
\* most one element
InstanceOfLiteral ==
    \E cls \in Classes : \E elems \in {l \in Literals : Len(l) <= 1} :
        LET o == NewVector(cls, elems)
        IN  /\ lits < MaxLiterals
            /\ Fits(o)
            /\ heap' = o.heap
            /\ vecs' = o.vecs
            /\ ret' = o.ret
            /\ call' = Called("__init__", 0, NoArg)
            /\ out' = 0
            /\ lits' = lits + 1
            /\ UNCHANGED nbvars
            /\ UNCHANGED humanvars

\* a caller who derives classes from Vector and does arithmetic on their
\* instances
NextTyped ==
    \/ InstanceOfLiteral
    \/ Add
    \/ Sub
    \/ Mul
    \/ TrueDiv
    \/ Pow

SpecTyped == Init /\ [][NextTyped]_vars

TypeOK ==
    /\ Len(heap) <= MaxLists
    /\ Len(vecs) <= MaxVecs
    /\ \A v \in DOMAIN vecs : vecs[v].data \in DOMAIN heap
    /\ out \in 0..1
    /\ lits \in 0..MaxLiterals

\* ---- the energy notebook as a program -----------------------------------
VectorsIdle ==
    /\ heap = <<>>
    /\ vecs = <<>>
    /\ call = Called("none", 0, NoArg)
    /\ ret = RetNone
    /\ out = 0
    /\ lits = 0

\* the functions called on the atoms of any conformer and on any numbers
InitGeometry ==
    /\ VectorsIdle
    /\ HumansIdle
    /\ conformer \in Conformers
    /\ system = NoSystem
    /\ nb = Unbound
    /\ probe = NoProbe

Probed(p) ==
    /\ probe' = p
    /\ UNCHANGED <<conformer, system, nb>>
    /\ UNCHANGED humanvars
    /\ UNCHANGED vecvars

CallDistanceVector ==
    \E a \in Atoms, b \in Atoms :
        Probed([NoProbe EXCEPT !.op = "get_distance_vector", !.a = a, !.b = b,
                   !.vec = get_distance_vector(pos(conformer, a), pos(conformer, b))])

CallDistance ==
    \E a \in Atoms, b \in Atoms :
        Probed([NoProbe EXCEPT !.op = "get_distance", !.a = a, !.b = b,
                   !.root = get_distance(pos(conformer, a), pos(conformer, b))])

CallAngle ==
    \E a \in Atoms, b \in Atoms, c \in Atoms :
        Probed([NoProbe EXCEPT !.op = "get_angle", !.a = a, !.b = b, !.c = c,
                   !.ang = get_angle(pos(conformer, a), pos(conformer, b),
                                     pos(conformer, c))])

CallHarmonic ==
    \E x \in Numbers, k \in Numbers, r0 \in Numbers :
        Probed([NoProbe EXCEPT !.op = "harmonic", !.x = x, !.k = k, !.r0 = r0,
                   !.num = harmonic(x, k, r0)])

NextGeometry ==
    \/ CallDistanceVector
    \/ CallDistance
    \/ CallAngle
    \/ CallHarmonic

SpecGeometry == InitGeometry /\ [][NextGeometry]_vars

\* the cells of the notebook run in order, on a conformer whose two bond
\* lengths are rational and on the parameters the engine holds
InitEnergy ==
    /\ VectorsIdle
    /\ HumansIdle
    /\ conformer \in {c \in Conformers :
                         /\ IsSquare(get_distance(c[1], c[2]).sq)
                         /\ IsSquare(get_distance(c[2], c[3]).sq)
                         /\ HasHalfTurns(get_angle(c[1], c[2], c[3]))}
    /\ \E force \in Forces, rounding \in Roundings :
           system = System(conformer, force, rounding)
    /\ nb = Unbound
    /\ probe = NoProbe

Cell(from, to, bound) ==
    /\ nb.pc = from
    /\ nb' = [bound EXCEPT !.pc = to]
    /\ UNCHANGED <<conformer, system, probe>>
    /\ UNCHANGED humanvars
    /\ UNCHANGED vecvars

\* x0, x1, x2 = conformer
Unpack ==
    Cell("unpack", "bonds",
         [nb EXCEPT !.x0 = conformer[1], !.x1 = conformer[2], !.x2 = conformer[3]])

\* r01 = get_distance(x0, x1); r12 = get_distance(x1, x2)
BondLengthsCell ==
    Cell("bonds", "angle",
         [nb EXCEPT !.r01 = get_distance(nb.x0, nb.x1),
                    !.r12 = get_distance(nb.x1, nb.x2)])

\* c012 = get_angle(x0, x1, x2)
AngleCell ==
    Cell("angle", "params", [nb EXCEPT !.c012 = get_angle(nb.x0, nb.x1, nb.x2)])

\* for force in system.getForces(): ... getBondParameters(0) ...
\* getAngleParameters(0), and the magnitudes of the four quantities
Parameters ==
    Cell("params", "bond_energy",
         [nb EXCEPT !.r0 = getBondParameters(system, 0).r0,
                    !.k_r = getBondParameters(system, 0).k,
                    !.theta0 = getAngleParameters(system, 0).theta0,
                    !.k_theta = getAngleParameters(system, 0).k_theta])

\* bond_energy_computed = harmonic(r01, k_r, r0) + harmonic(r12, k_r, r0)
BondEnergy ==
    Cell("bond_energy", "angle_energy",
         [nb EXCEPT !.bond_energy_computed = bond_energy_computed(nb)])

\* angle_energy_computed = harmonic(c012, k_theta, theta0)
AngleEnergy ==
    Cell("angle_energy", "check",
         [nb EXCEPT !.angle_energy_computed = angle_energy_computed(nb)])

\* assert np.allclose(bond_energy_computed, bond_energy...)
\* assert np.allclose(angle_energy_computed, angle_energy...)
\* a failing assert raises AssertionError, which carries nothing
Check ==
    IF /\ np_allclose(nb.bond_energy_computed, system.bond_energy, rtol, atol)
       /\ np_allclose(nb.angle_energy_computed, system.angle_energy, rtol, atol)
    THEN Cell("check", "done", nb)
    ELSE Cell("check", "raised", [nb EXCEPT !.err = "AssertionError", !.args = <<>>])

NextEnergy ==
    \/ Unpack
    \/ BondLengthsCell
    \/ AngleCell
    \/ Parameters
    \/ BondEnergy
    \/ AngleEnergy
    \/ Check

SpecEnergy == InitEnergy /\ [][NextEnergy]_vars

\* the same cells on a system whose last bond term and whose angle term may
\* name atom 3, which the conformer of three atoms does not have; the engine
\* reports no energies for such a system
ForcesAnyIndex ==
    {[bonds |-> <<f.bonds[1], [f.bonds[2] EXCEPT !.j = j]>>,
      angles |-> <<[f.angles[1] EXCEPT !.k = k]>>,
      bond_energy |-> Zero, angle_energy |-> Zero] :
        f \in Forces, j \in 2..3, k \in 2..3}

InitEnergyAnyIndex ==
    /\ VectorsIdle
    /\ HumansIdle
    /\ conformer \in {c \in Conformers :
                         /\ IsSquare(get_distance(c[1], c[2]).sq)
                         /\ IsSquare(get_distance(c[2], c[3]).sq)
                         /\ HasHalfTurns(get_angle(c[1], c[2], c[3]))}
    /\ system \in ForcesAnyIndex
    /\ nb = Unbound
    /\ probe = NoProbe

SpecEnergyAnyIndex == InitEnergyAnyIndex /\ [][NextEnergy]_vars

\* ---- the Human cells as a program ---------------------------------------
\* borges = Human(name="borges", birth_year=...)
\* cortazar = Human(name="cortazar", birth_year=...)
InitHuman ==
    /\ VectorsIdle
    /\ conformer = <<>>
    /\ system = NoSystem
    /\ nb = Unbound
    /\ probe = NoProbe
    /\ \E b1 \in BirthYears, b2 \in BirthYears :
           humans = <<Human("borges", b1), Human("cortazar", b2)>>
    /\ today \in 0..MaxYear
    /\ asked = NotAsked

\* the year turns
NewYear ==
    /\ today <= MaxYear
    /\ today' = today + 1
    /\ UNCHANGED <<humans, asked>>
    /\ UNCHANGED vecvars
    /\ UNCHANGED nbvars

\* h.get_age()
GetAge ==
    \E self \in DOMAIN humans :
        /\ asked' = [NotAsked EXCEPT !.op = "get_age", !.self = self,
                                     !.years = <<today, today>>,
                                     !.age = get_age(self, today)]
        /\ UNCHANGED <<humans, today>>
        /\ UNCHANGED vecvars
        /\ UNCHANGED nbvars

\* a.is_older_than(b); the year may turn between its two readings of the
\* clock
IsOlderThan ==
    \E self \in DOMAIN humans, other \in DOMAIN humans :
        \E y2 \in {today, today + 1} :
            LET o == is_older_than(self, other, today, y2)
            IN  /\ y2 <= MaxYear + 1
                /\ humans' = o.humans
                /\ today' = y2
                /\ asked' = [NotAsked EXCEPT !.op = "is_older_than", !.self = self,
                                             !.other = other, !.years = <<today, y2>>,
                                             !.ret = o.ret]
                /\ UNCHANGED vecvars
                /\ UNCHANGED nbvars

NextHuman ==
    \/ NewYear
    \/ GetAge
    \/ IsOlderThan

SpecHuman == InitHuman /\ [][NextHuman]_vars

\* ---- properties ---------------------------------------------------------
\* The error kinds of the specification, by the Python exception raised.
\* No exception of the program is a ShapeMismatch.
ErrorKind(e) ==
    CASE e = "ZeroDivisionError" -> "DivisionError"
      [] e = "IndexError" -> "IndexError"
      [] e = "AssertionError" -> "ConsistencyError"
      [] OTHER -> "other"

\* r is the rational n / d (d > 0), compared without reducing n / d
SameValue(r, n, d) == r[1] * d = n * r[2]

\* a op b as an unreduced fraction <<n, d>>
Expected(op, a, b) ==
    CASE op = "__add__" -> <<a[1] * b[2] + b[1] * a[2], a[2] * b[2]>>
      [] op = "__sub__" -> <<a[1] * b[2] - b[1] * a[2], a[2] * b[2]>>
      [] op = "__mul__" -> <<a[1] * b[1], a[2] * b[2]>>
      [] op = "__truediv__" ->
            IF b[1] > 0 THEN <<a[1] * b[2], a[2] * b[1]>>
            ELSE <<-(a[1] * b[2]), -(a[2] * b[1])>>

\* u_i * v_i + ... + u_n * v_n as an unreduced fraction, from index i on
RECURSIVE SumOfProducts(_, _, _)
SumOfProducts(u, v, i) ==
    IF i > Len(u) THEN <<0, 1>>
    ELSE LET rest == SumOfProducts(u, v, i + 1)
             n == u[i][1] * v[i][1]
             d == u[i][2] * v[i][2]
         IN  <<n * rest[2] + rest[1] * d, d * rest[2]>>

\* u_i + ... + u_n as an unreduced fraction, from index i on
RECURSIVE SumOfElements(_, _)
SumOfElements(u, i) ==
    IF i > Len(u) THEN <<0, 1>>
    ELSE LET rest == SumOfElements(u, i + 1)
         IN  <<u[i][1] * rest[2] + rest[1] * u[i][2], u[i][2] * rest[2]>>

ArithOps == {"__add__", "__sub__", "__mul__", "__truediv__"}
VectorOps == ArithOps \cup {"__pow__", "dot", "sum", "mean", "__len__"}

Pairwise == call.y.tag = "vec"
Broadcast == call.y.tag \in {"float", "int"}
SameLength == Len(Data(call.self)) = Len(Data(call.y.vec))

\* C1: a pairwise add, subtract, multiply or divide of two vectors of
\* different lengths fails with a ShapeMismatch error and returns no vector.
C1_MismatchedLengthsFail ==
    (call.op \in ArithOps /\ Pairwise /\ ~SameLength)
        => (ret.kind = "error" /\ ErrorKind(ret.err) = "ShapeMismatch")

\* C2: for same-length vectors u and v, u + v, u - v and u * v return a
\* vector as long as u whose i-th element is u_i + v_i, u_i - v_i, u_i * v_i.
C2_PairwiseElementwise ==
    (call.op \in {"__add__", "__sub__", "__mul__"} /\ Pairwise /\ SameLength)
        => /\ ret.kind = "vector"
           /\ Len(Data(ret.vec)) = Len(Data(call.self))
           /\ \A i \in 1..Len(Data(call.self)) :
                 LET e == Expected(call.op, Data(call.self)[i], Data(call.y.vec)[i])
                 IN  SameValue(Data(ret.vec)[i], e[1], e[2])

\* a subtraction of two different two-element vectors has returned
C2_Witness ==
    /\ call.op = "__sub__"
    /\ Pairwise
    /\ call.y.vec # call.self
    /\ Len(Data(call.self)) = 2
    /\ Len(Data(call.y.vec)) = 2
    /\ Data(call.self) # Data(call.y.vec)
    /\ ret.kind = "vector"

\* C3: with a scalar right-hand operand of any numeric representation (a
\* nonzero one for divide), add, subtract, multiply and divide return the
\* vector as long as v whose i-th element is v_i op s.
C3_ScalarBroadcast ==
    (/\ call.op \in ArithOps
     /\ Broadcast
     /\ (call.op = "__truediv__" => call.y.num # Zero))
        => /\ ret.kind = "vector"
           /\ Len(Data(ret.vec)) = Len(Data(call.self))
           /\ \A i \in 1..Len(Data(call.self)) :
                 LET e == Expected(call.op, Data(call.self)[i], call.y.num)
                 IN  SameValue(Data(ret.vec)[i], e[1], e[2])

\* C4: for same-length vectors u and v, u.dot(v) returns the number
\* u_1 * v_1 + ... + u_n * v_n, which is also the sum of the elements of u * v.
C4_DotIsSumOfProducts ==
    (call.op = "dot" /\ Pairwise /\ SameLength)
        => /\ ret.kind = "number"
           /\ LET e == SumOfProducts(Data(call.self), Data(call.y.vec), 1)
              IN  SameValue(ret.num, e[1], e[2])
           /\ LET o == __mul__(call.self, call.y)
                  e == SumOfElements(o.heap[o.vecs[o.ret.vec].data], 1)
              IN  SameValue(ret.num, e[1], e[2])

\* a dot product of two different two-element vectors has returned a nonzero
\* number
C4_Witness ==
    /\ call.op = "dot"
    /\ Pairwise
    /\ call.y.vec # call.self
    /\ Len(Data(call.self)) = 2
    /\ Len(Data(call.y.vec)) = 2
    /\ ret.kind = "number"
    /\ ret.num # Zero

\* C5: u.dot(other) fails with a ShapeMismatch error, and returns no number,
\* when other is a scalar or a vector of another length than u.
C5_DotRejectsOtherShapes ==
    (call.op = "dot" /\ (Broadcast \/ (Pairwise /\ ~SameLength)))
        => (ret.kind = "error" /\ ErrorKind(ret.err) = "ShapeMismatch")

\* C6: v / 0.0 for a nonempty v, and u / w for same-length u and w where some
\* element of w is zero, fail with a DivisionError and return no vector.
C6_DivideByZeroFails ==
    (/\ call.op = "__truediv__"
     /\ \/ (call.y.tag = "float" /\ call.y.num = Zero /\ Len(Data(call.self)) > 0)
        \/ (Pairwise /\ SameLength
               /\ \E i \in 1..Len(Data(call.y.vec)) : Data(call.y.vec)[i][1] = 0))
        => /\ ret.kind = "error"
           /\ ErrorKind(ret.err) = "DivisionError"
           /\ ret.vec = 0

\* a two-element vector was divided by a same-length vector whose last
\* element only is zero
C6_Witness ==
    /\ call.op = "__truediv__"
    /\ Pairwise
    /\ Len(Data(call.self)) = 2
    /\ Len(Data(call.y.vec)) = 2
    /\ Data(call.y.vec)[1][1] # 0
    /\ Data(call.y.vec)[2][1] = 0
    /\ ret.kind = "error"

\* v / 0.0 was called on a nonempty vector
C6_WitnessScalar ==
    /\ call.op = "__truediv__"
    /\ call.y.tag = "float"
    /\ call.y.num = Zero
    /\ Len(Data(call.self)) > 0
    /\ ret.kind = "error"

\* C7: for a nonempty vector v, v.mean() returns v.sum() divided by the
\* number of elements of v.
C7_MeanIsSumOverLength ==
    (call.op = "mean" /\ Len(Data(call.self)) > 0)
        => /\ ret.kind = "number"
           /\ LET e == SumOfElements(Data(call.self), 1)
              IN  SameValue(ret.num, e[1], e[2] * Len(Data(call.self)))

\* C8: mean() of a vector of length zero fails with a DivisionError.
C8_MeanOfEmptyIsDivisionError ==
    (call.op = "mean" /\ Len(Data(call.self)) = 0)
        => (ret.kind = "error" /\ ErrorKind(ret.err) = "DivisionError")

\* C9: add, subtract, multiply, divide, power, dot, sum, mean and length
\* leave every list and every Vector that existed as it was, and a vector
\* they return is a new object whose data is a new list, not the list of an
\* operand.
C9_OperandsUnchanged ==
    [][call'.op \in VectorOps =>
          /\ \A l \in DOMAIN heap : l \in DOMAIN heap' /\ heap'[l] = heap[l]
          /\ \A v \in DOMAIN vecs : v \in DOMAIN vecs' /\ vecs'[v] = vecs[v]
          /\ ret'.kind = "vector" =>
                /\ ret'.vec \notin DOMAIN vecs
                /\ vecs'[ret'.vec].data \notin DOMAIN heap]_vars

\* an addition of two Vectors has returned a vector that differs from its
\* receiver
C9_Witness ==
    /\ call.op = "__add__"
    /\ Pairwise
    /\ call.y.vec # call.self
    /\ ret.kind = "vector"
    /\ Len(Data(call.self)) > 0
    /\ Data(ret.vec) # Data(call.self)

\* C10: once a Vector is constructed, nothing changes the elements it holds:
\* no change to the list it was built from, no operation on another Vector.
C10_ElementsNeverChange ==
    [][\A v \in DOMAIN vecs : heap'[vecs'[v].data] = heap[vecs[v].data]]_vars

\* C11: for every scalar s and vector v, (v + s) - s is a vector as long as
\* v that equals v element by element.
C11_RoundTrip ==
    [][/\ (call'.op = "__add__" /\ call'.y.tag \in {"float", "int"})
              => ret'.kind = "vector"
       /\ (/\ call.op = "__add__"
           /\ Broadcast
           /\ ret.kind = "vector"
           /\ call'.op = "__sub__"
           /\ call'.self = ret.vec
           /\ call'.y = call.y)
              => /\ ret'.kind = "vector"
                 /\ heap'[vecs'[ret'.vec].data] = heap[vecs[call.self].data]]_vars

\* the round trip of C11 for float scalars only: (v + s) - s equals v
C11_RoundTripFloat ==
    [][(/\ call.op = "__add__"
        /\ call.y.tag = "float"
        /\ ret.kind = "vector"
        /\ call'.op = "__sub__"
        /\ call'.self = ret.vec
        /\ call'.y = call.y)
           => /\ ret'.kind = "vector"
              /\ heap'[vecs'[ret'.vec].data] = heap[vecs[call.self].data]]_vars

\* C12: len(v) returns the number of elements of v, also for the empty
\* vector; it prints one notice and leaves every list and Vector as it was.
C12_LengthIsPure ==
    [][call'.op = "__len__" =>
          /\ ret'.kind = "number"
          /\ ret'.num = <<Len(heap[vecs[call'.self].data]), 1>>
          /\ out' = 1
          /\ heap' = heap
          /\ vecs' = vecs]_vars

\* len was called on a two-element vector that holds a zero
C12_Witness ==
    /\ call.op = "__len__"
    /\ Len(Data(call.self)) = 2
    /\ \E i \in 1..2 : Data(call.self)[i] = Zero
    /\ ret.kind = "number"

\* len was called on the empty vector
C12_WitnessEmpty ==
    /\ call.op = "__len__"
    /\ Len(Data(call.self)) = 0
    /\ ret.kind = "number"

\* n ** e for a natural e
RECURSIVE IntPow(_, _)
IntPow(n, e) == IF e = 0 THEN 1 ELSE n * IntPow(n, e - 1)

\* a ** e as an unreduced fraction with a positive denominator (a # 0 if e < 0)
ExpectedPower(a, e) ==
    IF e >= 0 THEN <<IntPow(a[1], e), IntPow(a[2], e)>>
    ELSE IF IntPow(a[1], -e) > 0 THEN <<IntPow(a[2], -e), IntPow(a[1], -e)>>
    ELSE <<-IntPow(a[2], -e), -IntPow(a[1], -e)>>

PowerDefined == \A i \in 1..Len(Data(call.self)) : call.y.num[1] >= 0 \/ Data(call.self)[i][1] # 0

\* C13 as stated: v ** e with a scalar e returns a new vector as long as v
\* whose i-th element is v_i ** e.
C13_PowerElementwise ==
    (call.op = "__pow__" /\ Broadcast)
        => /\ ret.kind = "vector"
           /\ Len(Data(ret.vec)) = Len(Data(call.self))
           /\ \A i \in 1..Len(Data(call.self)) :
                 LET e == ExpectedPower(Data(call.self)[i], call.y.num[1])
                 IN  SameValue(Data(ret.vec)[i], e[1], e[2])

\* C13 amended: v ** e with a scalar e returns a new vector as long as v whose
\* i-th element is v_i ** e, unless e is negative and some v_i is zero: then
\* it raises ZeroDivisionError and returns no vector.
C13_PowerElementwiseWhereDefined ==
    (call.op = "__pow__" /\ Broadcast)
        => IF PowerDefined
           THEN /\ ret.kind = "vector"
                /\ ret.vec # call.self
                /\ vecs[ret.vec].data # vecs[call.self].data
                /\ Len(Data(ret.vec)) = Len(Data(call.self))
                /\ \A i \in 1..Len(Data(call.self)) :
                      LET e == ExpectedPower(Data(call.self)[i], call.y.num[1])
                      IN  SameValue(Data(ret.vec)[i], e[1], e[2])
           ELSE ret.kind = "error" /\ ret.err = "ZeroDivisionError"

\* a vector holding 2.0 was raised to the power -1
C13_Witness ==
    /\ call.op = "__pow__"
    /\ call.y = IntArg(<<-1, 1>>)
    /\ \E i \in 1..Len(Data(call.self)) : Data(call.self)[i] = <<2, 1>>
    /\ ret.kind = "vector"

\* ---- properties of the energy notebook ----------------------------------
HarmonicCalled == probe.op = "harmonic"

\* C14: harmonic(x0, k, x0) is 0 for every force constant k and every
\* equilibrium value x0.
C14_ZeroAtEquilibrium ==
    (HarmonicCalled /\ probe.x = probe.r0) => probe.num = Zero

C14_Witness ==
    /\ HarmonicCalled
    /\ probe.x = probe.r0
    /\ probe.k # Zero
    /\ probe.r0 # Zero

\* C15: harmonic(x, 0, x0) is 0 for every x and every x0.
C15_ZeroForceConstant ==
    (HarmonicCalled /\ probe.k = Zero) => probe.num = Zero

C15_Witness ==
    /\ HarmonicCalled
    /\ probe.k = Zero
    /\ probe.x # probe.r0

\* C16: for every x, k and x0, harmonic(x, k, x0) is at least
\* harmonic(x0, k, x0).
C16_MinimizedAtEquilibrium ==
    HarmonicCalled => RLeq(harmonic(probe.r0, probe.k, probe.r0), probe.num)

\* C16, amended: for every x and x0 and every k >= 0, harmonic(x, k, x0) is
\* at least harmonic(x0, k, x0).
C16_MinimizedForNonnegativeK ==
    (HarmonicCalled /\ RLeq(Zero, probe.k)) =>
        RLeq(harmonic(probe.r0, probe.k, probe.r0), probe.num)

C16_Witness ==
    /\ HarmonicCalled
    /\ RLeq(Zero, probe.k) /\ probe.k # Zero
    /\ probe.x # probe.r0
    /\ probe.num # Zero

AngleCalled == probe.op = "get_angle"

\* C17: the angle is the same when its outer arguments are swapped:
\* get_angle(a, center, b) = get_angle(b, center, a).
C17_AngleSymmetric ==
    AngleCalled =>
        probe.ang = get_angle(pos(conformer, probe.c), pos(conformer, probe.b),
                              pos(conformer, probe.a))

C17_Witness ==
    /\ AngleCalled
    /\ pos(conformer, probe.a) # pos(conformer, probe.c)
    /\ pos(conformer, probe.a) # pos(conformer, probe.b)
    /\ pos(conformer, probe.c) # pos(conformer, probe.b)
    /\ probe.ang.sgn # 0
    /\ probe.ang.cos2 # One

\* The angle atan2(|v1 x v2|, v1 . v2) of v1 = a - center and v2 = b - center:
\* with d = v1 . v2 the square of |v1 x v2| is |v1|^2 |v2|^2 - d^2, so the
\* cosine of the angle has the sign of d and the square d^2 / (|v1|^2 |v2|^2);
\* when v1 or v2 is zero both arguments of atan2 are 0 and the angle is 0,
\* where the arc-cosine of d / (|v1| |v2|) is undefined.
Diff(p, q, i) == RSub(p[i], q[i])
Dot3(a, b, c, d) ==
    RAdd(RAdd(RMul(Diff(a, b, 1), Diff(c, d, 1)), RMul(Diff(a, b, 2), Diff(c, d, 2))),
         RMul(Diff(a, b, 3), Diff(c, d, 3)))
ExpectedAngle(a, center, b) ==
    LET d  == Dot3(a, center, b, center)
        n1 == Dot3(a, center, a, center)
        n2 == Dot3(b, center, b, center)
    IN  IF n1 = Zero \/ n2 = Zero THEN Angle(1, One)
        ELSE Angle(Sign(d[1]), RDiv(RMul(d, d), RMul(n1, n2)))

\* C18: get_angle(a, center, b) is atan2(norm(cross(v1, v2)), dot(v1, v2))
\* with v1 = a - center and v2 = b - center, both starting at the second
\* argument; it is 0, not undefined, when one of them is the zero vector.
C18_AngleIsAtan2AtCenter ==
    AngleCalled =>
        probe.ang = ExpectedAngle(pos(conformer, probe.a), pos(conformer, probe.b),
                                  pos(conformer, probe.c))

C18_Witness ==
    /\ AngleCalled
    /\ probe.a # probe.b /\ probe.c # probe.b /\ probe.a # probe.c
    /\ probe.ang.sgn = -1
    /\ probe.ang.cos2 # One

C18_WitnessDegenerate ==
    /\ AngleCalled
    /\ pos(conformer, probe.a) = pos(conformer, probe.b)
    /\ pos(conformer, probe.c) # pos(conformer, probe.b)
    /\ probe.ang = Angle(1, One)

\* C19: get_distance_vector(a, b) is b - a component by component, of the
\* dimension of its arguments, and get_distance(a, b) is the norm of that
\* difference.
C19_DistanceVectorAndDistance ==
    LET a == pos(conformer, probe.a)
        b == pos(conformer, probe.b)
    IN  /\ probe.op = "get_distance_vector" =>
               /\ Len(probe.vec) = Len(a)
               /\ Len(probe.vec) = Len(b)
               /\ \A i \in 1..Len(a) :
                      SameValue(probe.vec[i],
                                b[i][1] * a[i][2] - a[i][1] * b[i][2],
                                a[i][2] * b[i][2])
        /\ probe.op = "get_distance" => probe.root = Root(Dot3(b, a, b, a))

C19_Witness ==
    /\ probe.op = "get_distance_vector"
    /\ \E i \in 1..3 : probe.vec[i][1] < 0
    /\ \E i \in 1..3 : probe.vec[i][1] > 0

C19_WitnessDistance ==
    /\ probe.op = "get_distance"
    /\ probe.root.sq = <<5, 1>>

\* the sum over the bond terms of the harmonic energy of each term's own
\* bond length with each term's own parameters
RECURSIVE SumOverBondTerms(_, _)
SumOverBondTerms(c, terms) ==
    IF Len(terms) = 0 THEN Zero
    ELSE RAdd(harmonic(Value(get_distance(pos(c, terms[1].i), pos(c, terms[1].j))),
                       terms[1].k, terms[1].r0),
              SumOverBondTerms(c, Tail(terms)))

BondEnergyComputed == nb.pc = "angle_energy"

\* C20: the bond energy is the sum, over every bond term, of
\* harmonic(distance(pos[i], pos[j]), k_r, r0) with that term's own k_r and
\* r0, each term once.
C20_BondEnergyOwnParameters ==
    BondEnergyComputed =>
        nb.bond_energy_computed = SumOverBondTerms(conformer, system.bonds)

\* C20, where it does hold: when every bond term has the parameters of the
\* first, the bond energy is that sum.
C20_BondEnergySharedParameters ==
    (/\ BondEnergyComputed
     /\ \A n \in 1..Len(system.bonds) :
            /\ system.bonds[n].r0 = system.bonds[1].r0
            /\ system.bonds[n].k = system.bonds[1].k) =>
        nb.bond_energy_computed = SumOverBondTerms(conformer, system.bonds)

\* the sum over the angle terms of the harmonic energy of each term's own
\* angle, at its center atom j, with each term's own parameters
RECURSIVE SumOverAngleTerms(_, _)
SumOverAngleTerms(c, terms) ==
    IF Len(terms) = 0 THEN Zero
    ELSE RAdd(harmonic(HalfTurns(get_angle(pos(c, terms[1].i), pos(c, terms[1].j),
                                           pos(c, terms[1].k))),
                       terms[1].k_theta, terms[1].theta0),
              SumOverAngleTerms(c, Tail(terms)))

AngleEnergyComputed == nb.pc = "check"

Reverse(terms) == [n \in 1..Len(terms) |-> terms[Len(terms) + 1 - n]]
Reordered == [system EXCEPT !.bonds = Reverse(@), !.angles = Reverse(@)]

\* the totals the energy cells give with the parameters read from sys
BondEnergyOn(sys) ==
    bond_energy_computed([nb EXCEPT !.r0 = getBondParameters(sys, 0).r0,
                                    !.k_r = getBondParameters(sys, 0).k])
AngleEnergyOn(sys) ==
    angle_energy_computed([nb EXCEPT !.theta0 = getAngleParameters(sys, 0).theta0,
                                     !.k_theta = getAngleParameters(sys, 0).k_theta])

\* C22: the totals do not depend on the order of the terms: with the bond
\* terms (the angle terms) in another order the bond (angle) energy is the
\* same.
C22_OrderIndependent ==
    AngleEnergyComputed =>
        /\ nb.bond_energy_computed = BondEnergyOn(Reordered)
        /\ nb.angle_energy_computed = AngleEnergyOn(Reordered)

\* C22, where it does hold: the angle energy in every case, the bond energy
\* when the bond terms have the same parameters.
C22_OrderIndependentSharedParameters ==
    AngleEnergyComputed =>
        /\ nb.angle_energy_computed = AngleEnergyOn(Reordered)
        /\ (system.bonds[1].r0 = system.bonds[2].r0 /\ system.bonds[1].k = system.bonds[2].k)
               => nb.bond_energy_computed = BondEnergyOn(Reordered)

AtomsOf(c) == 0..(Len(c) - 1)
TermOutOfRange ==
    \/ \E n \in 1..Len(system.bonds) :
           system.bonds[n].i \notin AtomsOf(conformer) \/ system.bonds[n].j \notin AtomsOf(conformer)
    \/ \E n \in 1..Len(system.angles) :
           \/ system.angles[n].i \notin AtomsOf(conformer)
           \/ system.angles[n].j \notin AtomsOf(conformer)
           \/ system.angles[n].k \notin AtomsOf(conformer)

\* C23: when a bond or angle term names an atom the conformer does not have,
\* the energy totals fail with an IndexError and give no value; when every
\* term is in range they do not fail.
C23_OutOfRangeIsIndexError ==
    /\ (TermOutOfRange /\ nb.pc \in {"angle_energy", "check"})
           => ErrorKind(nb.err) = "IndexError"
    /\ (~TermOutOfRange /\ nb.pc \in {"angle_energy", "check"}) => nb.err = ""

\* C23, the half that holds: with every term in range the totals do not fail.
C23_InRangeNoError ==
    (~TermOutOfRange /\ nb.pc \in {"angle_energy", "check"}) => nb.err = ""

\* c is within the tolerance of r: |c - r| <= 1e-8 + 1e-5 * |r|, with both
\* sides counted in units of 1e-8
Within(c, r) ==
    LET d == RAbs(RSub(c, r))[1] * (100000000 \div RAbs(RSub(c, r))[2])
        u == Abs(r[1]) * (100000000 \div r[2])
    IN  d - 1 <= u \div 100000
Checked == nb.pc \in {"done", "raised"}
BondAgrees == Within(nb.bond_energy_computed, system.bond_energy)
AngleAgrees == Within(nb.angle_energy_computed, system.angle_energy)

\* C24: the check is silent when the computed and the reference energies
\* agree, and otherwise fails with a ConsistencyError that carries the
\* computed value, the reference value and their absolute difference.
C24_SilentOrDiagnosed ==
    Checked =>
        /\ (BondAgrees /\ AngleAgrees) => (nb.pc = "done" /\ nb.err = "" /\ out = 0)
        /\ ~BondAgrees =>
               /\ ErrorKind(nb.err) = "ConsistencyError"
               /\ nb.args = <<nb.bond_energy_computed, system.bond_energy,
                              RAbs(RSub(nb.bond_energy_computed, system.bond_energy))>>
        /\ (BondAgrees /\ ~AngleAgrees) =>
               /\ ErrorKind(nb.err) = "ConsistencyError"
               /\ nb.args = <<nb.angle_energy_computed, system.angle_energy,
                              RAbs(RSub(nb.angle_energy_computed, system.angle_energy))>>

\* C24, the part that holds: silent on agreement, an AssertionError otherwise.
C24_SilentOrAssertionError ==
    Checked =>
        /\ (BondAgrees /\ AngleAgrees) => (nb.pc = "done" /\ nb.err = "" /\ out = 0)
        /\ ~(BondAgrees /\ AngleAgrees) => (nb.pc = "raised" /\ nb.err = "AssertionError")

C25_WitnessAngleFails ==
    /\ nb.pc = "raised"
    /\ BondAgrees
    /\ nb.bond_energy_computed # Zero
    /\ nb.angle_energy_computed # system.angle_energy

C25_WitnessAnglePasses ==
    /\ nb.pc = "done"
    /\ nb.angle_energy_computed # system.angle_energy

\* a, center, b lie on one line: |v1|^2 |v2|^2 = (v1 . v2)^2
Collinear(a, center, b) ==
    RMul(Dot3(a, center, a, center), Dot3(b, center, b, center)) =
        RMul(Dot3(a, center, b, center), Dot3(a, center, b, center))

\* C28: get_angle has no error path: when a or b coincides with the center
\* it returns 0, when the three are on one line it returns 0 or pi; for all
\* inputs the angle is not below 0 and not above pi.
C28_AngleTotalAndInRange ==
    AngleCalled =>
        LET a == pos(conformer, probe.a)
            center == pos(conformer, probe.b)
            b == pos(conformer, probe.c)
        IN  /\ ~probe.ang.neg
            /\ probe.ang.sgn \in {-1, 0, 1}
            /\ RLeq(Zero, probe.ang.cos2) /\ RLeq(probe.ang.cos2, One)
            /\ (a = center \/ b = center) => probe.ang = Angle(1, One)
            /\ Collinear(a, center, b) => probe.ang \in {Angle(1, One), Angle(-1, One)}

C28_Witness ==
    /\ AngleCalled
    /\ pos(conformer, probe.a) # pos(conformer, probe.c)
    /\ probe.ang = Angle(-1, One)

C28_WitnessCoincident ==
    /\ AngleCalled
    /\ probe.a # probe.b /\ probe.b # probe.c
    /\ pos(conformer, probe.c) = pos(conformer, probe.b)
    /\ pos(conformer, probe.a) # pos(conformer, probe.b)
    /\ probe.ang = Angle(1, One)

C28_WitnessBent ==
    /\ AngleCalled
    /\ ~Collinear(pos(conformer, probe.a), pos(conformer, probe.b), pos(conformer, probe.c))
    /\ ~probe.ang.neg

\* a divisor among the paired elements of a pairwise divide is zero
PairedZeroDivisor ==
    /\ call.op = "__truediv__"
    /\ \E i \in 1..Min(Len(Data(call.self)), Len(Data(call.y.vec))) :
           Data(call.y.vec)[i][1] = 0

PairedByPosition ==
    /\ ret.kind = "vector"
    /\ Len(Data(ret.vec)) = Min(Len(Data(call.self)), Len(Data(call.y.vec)))
    /\ \A i \in 1..Min(Len(Data(call.self)), Len(Data(call.y.vec))) :
           LET e == Expected(call.op, Data(call.self)[i], Data(call.y.vec)[i])
           IN  SameValue(Data(ret.vec)[i], e[1], e[2])

\* C27: a pairwise add, subtract, multiply or divide of u and v returns a
\* vector of length min(len(u), len(v)) whose i-th element is u_i op v_i; the
\* rest of the longer operand is ignored and no error is raised.
C27_PairwiseTruncates ==
    (call.op \in ArithOps /\ Pairwise) => PairedByPosition

\* C27, amended: the same, unless a divide meets a zero among the paired
\* divisors: then it raises ZeroDivisionError and returns no vector.
C27_PairwiseTruncatesUnlessZeroDivisor ==
    (call.op \in ArithOps /\ Pairwise) =>
        IF PairedZeroDivisor
        THEN ret.kind = "error" /\ ret.err = "ZeroDivisionError"
        ELSE PairedByPosition

\* a divide by a longer vector whose zero lies past the length of the
\* receiver has returned a vector
C27_Witness ==
    /\ call.op = "__truediv__"
    /\ Pairwise
    /\ Len(Data(call.self)) = 1
    /\ Len(Data(call.y.vec)) = 2
    /\ Data(call.y.vec)[2] = Zero
    /\ ret.kind = "vector"
    /\ Len(Data(ret.vec)) = 1

C27_WitnessShorterOperand ==
    /\ call.op = "__add__"
    /\ Pairwise
    /\ Len(Data(call.self)) = 2
    /\ Len(Data(call.y.vec)) = 1
    /\ ret.kind = "vector"
    /\ Len(Data(ret.vec)) = 1

\* C26: add, subtract, multiply, divide and power return a vector of the
\* class of their receiver, also when the receiver is of a class derived
\* from Vector and the right-hand operand of another derived class; never
\* the base class instead.
C26_ResultHasClassOfReceiver ==
    (call.op \in ArithOps \cup {"__pow__"} /\ ret.kind = "vector")
        => vecs[ret.vec].cls = vecs[call.self].cls

\* an instance of A combined with an instance of B has returned
C26_Witness ==
    /\ call.op \in ArithOps
    /\ Pairwise
    /\ vecs[call.self].cls = "A"
    /\ vecs[call.y.vec].cls = "B"
    /\ ret.kind = "vector"
    /\ Len(Data(ret.vec)) = 1

C26_WitnessPower ==
    /\ call.op = "__pow__"
    /\ vecs[call.self].cls = "B"
    /\ ret.kind = "vector"

\* ---- properties of the Human class --------------------------------------
OlderAsked == asked.op = "is_older_than"
SameYear == asked.years[1] = asked.years[2]

\* C29: with both ages taken against the same year, a.is_older_than(b) is
\* true exactly when a.birth_year < b.birth_year; so it is false of a and a
\* and of equal birth years, never true both ways, and it changes no Human.
C29_OlderIffBornEarlier ==
    [][(OlderAsked' /\ SameYear' /\ asked' # asked) =>
          /\ asked'.ret = (humans[asked'.self].birth_year < humans[asked'.other].birth_year)
          /\ asked'.self = asked'.other => ~asked'.ret
          /\ humans[asked'.self].birth_year = humans[asked'.other].birth_year => ~asked'.ret
          /\ ~(/\ asked'.ret
               /\ is_older_than(asked'.other, asked'.self,
                                asked'.years[1], asked'.years[1]).ret)
          /\ humans' = humans]_vars

\* the first of two Humans born in different years has been compared with
\* the second within one year, and is the older
C29_Witness ==
    /\ OlderAsked
    /\ SameYear
    /\ asked.self # asked.other
    /\ humans[asked.self].birth_year + 1 = humans[asked.other].birth_year
    /\ asked.ret

C29_WitnessEqual ==
    /\ OlderAsked
    /\ SameYear
    /\ asked.self # asked.other
    /\ humans[asked.self].birth_year = humans[asked.other].birth_year
    /\ ~asked.ret

\* Without the proviso: whatever the clock does between the two readings,
\* a.is_older_than(b) is true exactly when a.birth_year < b.birth_year.
C29_OlderIffBornEarlierAnyClock ==
    OlderAsked =>
        asked.ret = (humans[asked.self].birth_year < humans[asked.other].birth_year)

====
